---- MODULE Spec2Model ----
(***************************************************************************)
(* clipipe: a line-delimited JSON request/response process in front of the *)
(* OS clipboard.  The dispatcher (parse, process_request, run, main) is     *)
(* modelled from src/src/main.rs, the Wayland and X11 backends and the      *)
(* backend factory from src/src/linux.rs, the Windows backend from          *)
(* src/src/windows.rs and the error type from src/src/clipboard.rs.  The    *)
(* native libraries (wl-clipboard-rs, x11-clipboard, clipboard-win) are     *)
(* stores whose calls may fail: each call's outcome is an input.            *)
(***************************************************************************)
EXTENDS Integers, Sequences, FiniteSets, TLC

\* ------------------------------------------------------------------ bounds
\* Longest text a copy request carries.
MaxLen == 2
\* Most consecutive failures of the OS clipboard lock the environment produces.
MaxContention == 11

\* ------------------------------------------------------------------- texts
\* A text is a sequence of characters; a character is named by a string.
\* LF and CR are the two characters the Windows conversion looks at; FFFD is
\* U+FFFD, which only lossy decoding produces.
Chars == {"LF", "CR"}

RECURSIVE SeqsUpTo(_, _)
SeqsUpTo(S, n) ==
    IF n = 0 THEN {<<>>}
    ELSE LET shorter == SeqsUpTo(S, n - 1)
         IN  shorter \cup {Append(s, c) : s \in {t \in shorter : Len(t) = n - 1}, c \in S}

Texts == SeqsUpTo(Chars, MaxLen)

Min_uncapped(a, b) == a

Min(a, b) == IF a <= b THEN a ELSE b

IsPrefix(p, s) == Len(p) <= Len(s) /\ SubSeq(s, 1, Len(p)) = p

\* str::replace: the non-overlapping matches of `from`, left to right.
RECURSIVE replace(_, _, _)
replace(s, from, to) ==
    IF s = <<>> THEN <<>>
    ELSE IF IsPrefix(from, s)
         THEN to \o replace(SubSeq(s, Len(from) + 1, Len(s)), from, to)
         ELSE <<Head(s)>> \o replace(Tail(s), from, to)

\* str::as_bytes: the UTF-8 encoding (LF is 0x0A, CR is 0x0D).  The byte 255
\* is no UTF-8 sequence: only another application puts it on a clipboard.
as_bytes(s) == [i \in 1..Len(s) |-> IF s[i] = "LF" THEN 10 ELSE IF s[i] = "CR" THEN 13 ELSE 63]

\* String::from_utf8_lossy: invalid sequences become U+FFFD.
from_utf8_lossy(b) ==
    [i \in 1..Len(b) |-> IF b[i] = 10 THEN "LF" ELSE IF b[i] = 13 THEN "CR"
                         ELSE IF b[i] = 63 THEN "?" ELSE "FFFD"]

\* str::starts_with on MIME types, which are sequences of segments:
\* <<"text/", "_moz", "_htmlinfo">> is text/_moz_htmlinfo.
starts_with(mime, prefix) == IsPrefix(prefix, mime)

TextPlain == <<"text/", "plain">>
MozHtmlInfo == <<"text/", "_moz", "_htmlinfo">>
ImagePng == <<"image/", "png">>

\* ------------------------------------------------------------ JSON requests
\* A field of the request object: absent, a string, or a non-string value
\* (the number 42).  A line is not JSON, JSON but no object, or an object.
Absent == [t |-> "absent"]
NonStr == [t |-> "number"]
Str(v) == [t |-> "string", v |-> v]

\* Display of a serde_json Value in an error message.
Display(value) == IF value.t = "string" THEN value.v ELSE "42"

ActionNames == {"copy", "paste", "query", "bogus"}
ClipNames == {"default", "primary", "clipboard", "both", "bogus"}

ClipValues == {Absent, NonStr} \cup {Str(n) : n \in ClipNames}
DataValues == {Absent, NonStr} \cup {Str(t) : t \in Texts}

Obj(a, c, d) == [json |-> "object", action |-> a, clipboard |-> c, data |-> d]

Lines ==
    {[json |-> "garbage"], [json |-> "array"]}
    \cup {Obj(a, Absent, Absent) : a \in {Absent, NonStr, Str("bogus"), Str("query")}}
    \cup {Obj(Str("query"), Str("bogus"), NonStr)}
    \cup {Obj(Str("paste"), c, Absent) : c \in ClipValues}
    \cup {Obj(Str("copy"), c, d) : c \in ClipValues, d \in DataValues}

\* ------------------------------------------------------------------ results
\* Result<T, E>: an error is its cause chain, outermost message first.
Ok(v) == [ok |-> TRUE, val |-> v]
Err(chain) == [ok |-> FALSE, err |-> chain]

\* ErrorDetail's Display.
SystemError == <<"system error">>
NoDisplayServer == <<"no display server available">>

\* Error::new_with_source(ErrorDetail::System, e): From<CopyError>,
\* From<PasteError>, From<X11Error>, From<io::Error>, From<ErrorCode>.
new_with_source(detail, chain) == Err(<<detail>> \o chain)

\* ---------------------------------------------------------- ClipboardAction
source_accepts_both(name) ==
    IF name.t = "absent" THEN Ok("default")
    ELSE IF name.t = "string"
         THEN IF name.v \in {"default", "clipboard", "primary"} THEN Ok(name.v)
              ELSE IF name.v = "both" THEN Ok("default")
              ELSE Err(<< <<"Invalid clipboard source: ", name.v>> >>)
         ELSE Err(<< <<"Invalid clipboard source: ", Display(name)>> >>)

source(name) ==
    IF name.t = "absent" THEN Ok("default")
    ELSE IF name.t = "string"
         THEN IF name.v \in {"default", "clipboard", "primary"} THEN Ok(name.v)
              ELSE Err(<< <<"Invalid clipboard source: ", name.v>> >>)
         ELSE Err(<< <<"Invalid clipboard source: ", Display(name)>> >>)

dest(name) ==
    IF name.t = "absent" THEN Ok("default")
    ELSE IF name.t = "string"
         THEN IF name.v \in {"default", "clipboard", "primary", "both"} THEN Ok(name.v)
              ELSE Err(<< <<"Invalid clipboard destination: ", name.v>> >>)
         ELSE Err(<< <<"Invalid clipboard destination: ", Display(name)>> >>)

data_defaults_to_empty(d) ==
    IF d.t = "absent" THEN Ok(<<>>)
    ELSE IF d.t = "string" THEN Ok(d.v)
         ELSE Err(<< <<"Invalid clipboard data: ", "42">> >>)

data(d) ==
    IF d.t = "absent" THEN Err(<< <<"Request is missing data">> >>)
    ELSE IF d.t = "string" THEN Ok(d.v)
         ELSE Err(<< <<"Invalid clipboard data: ", "42">> >>)

parse_data_first(doc) ==
    IF doc.action.t = "absent" THEN Err(<< <<"No action specified">> >>)
    ELSE IF doc.action.t = "string"
    THEN CASE doc.action.v = "copy" ->
                LET t == data(doc.data) IN
                IF ~t.ok THEN t
                ELSE LET d == dest(doc.clipboard) IN
                     IF ~d.ok THEN d
                     ELSE Ok([action |-> "copy", dest |-> d.val, data |-> t.val])
           [] doc.action.v = "paste" ->
                LET s == source(doc.clipboard) IN
                IF ~s.ok THEN s ELSE Ok([action |-> "paste", source |-> s.val])
           [] doc.action.v = "query" -> Ok([action |-> "query"])
           [] OTHER -> Err(<< <<"Invalid action: ", doc.action.v>> >>)
    ELSE Err(<< <<"Expected string for action: ", Display(doc.action)>> >>)

\* ClipboardAction::parse: Copy(dest, data), Paste(source) or Query.
parse(doc) ==
    IF doc.action.t = "absent" THEN Err(<< <<"No action specified">> >>)
    ELSE IF doc.action.t = "string"
    THEN CASE doc.action.v = "copy" ->
                LET d == dest(doc.clipboard) IN
                IF ~d.ok THEN d
                ELSE LET t == data(doc.data) IN
                     IF ~t.ok THEN t
                     ELSE Ok([action |-> "copy", dest |-> d.val, data |-> t.val])
           [] doc.action.v = "paste" ->
                LET s == source(doc.clipboard) IN
                IF ~s.ok THEN s ELSE Ok([action |-> "paste", source |-> s.val])
           [] doc.action.v = "query" -> Ok([action |-> "query"])
           [] OTHER -> Err(<< <<"Invalid action: ", doc.action.v>> >>)
    ELSE Err(<< <<"Expected string for action: ", Display(doc.action)>> >>)

VERSION == "CARGO_PKG_VERSION"

query == [version |-> VERSION]

\* ------------------------------------------------------- native error values
\* wl_clipboard_rs::paste::Error, by variant; `chain` is its Display and its
\* source()s.
PasteError(kind) ==
    [kind |-> kind,
     chain |-> CASE kind = "ClipboardEmpty" -> << <<"The clipboard of the requested seat is empty">> >>
                 [] kind = "NoSeats" -> << <<"There are no seats">> >>
                 [] kind = "NoMimeType" -> << <<"No suitable type of content copied">> >>
                 [] OTHER -> << <<"Couldn't connect to the Wayland compositor">>,
                                <<"Connection refused">> >>]

CopyError == << <<"Couldn't connect to the Wayland compositor">>, <<"Connection refused">> >>
IoError == << <<"Broken pipe">> >>
X11Error == << <<"XCB connection error">> >>

\* clipboard_win::ErrorCode's Display.
ErrorCode(code) == << <<"OS error ", ToString(code)>> >>

\* ------------------------------------------------------------- Wayland, native
\* A selection of the compositor: no offer, or an offer of one MIME type and
\* its bytes.
NoOffer == [present |-> FALSE, mime |-> <<>>, bytes |-> <<>>]
Offer(mime, bytes) == [present |-> TRUE, mime |-> mime, bytes |-> bytes]

\* wl_clipboard_rs::copy::Options::copy with MimeType::Text: the offer replaces
\* the selections of the clipboard type.
wl_copy(type, bytes, wlsel, outcome) ==
    IF outcome # "ok" THEN [res |-> Err(CopyError), wl |-> wlsel]
    ELSE [res |-> Ok(<<>>),
          wl |-> [s \in DOMAIN wlsel |->
                    IF \/ type = "Both"
                       \/ type = "Regular" /\ s = "regular"
                       \/ type = "Primary" /\ s = "primary"
                    THEN Offer(TextPlain, bytes) ELSE wlsel[s]]]

\* wl_clipboard_rs::paste::get_contents with Seat::Unspecified and
\* MimeType::TextWithPriority("text/plain"): the pipe and the MIME type.
get_contents(type, wlsel, outcome) ==
    LET offer == wlsel[IF type = "Primary" THEN "primary" ELSE "regular"] IN
    IF outcome = "NoSeats" THEN [ok |-> FALSE, error |-> PasteError("NoSeats")]
    ELSE IF ~offer.present THEN [ok |-> FALSE, error |-> PasteError("ClipboardEmpty")]
    ELSE IF ~starts_with(offer.mime, <<"text/">>)
         THEN [ok |-> FALSE, error |-> PasteError("NoMimeType")]
    ELSE IF outcome = "error" THEN [ok |-> FALSE, error |-> PasteError("WaylandConnection")]
    ELSE [ok |-> TRUE, pipe |-> offer.bytes, mime |-> offer.mime]

\* ----------------------------------------------------------- WaylandBackend
WaylandBackend_new(probe_ok) ==
    [kind |-> "wayland", primary_supported |-> probe_ok, convert_line_endings |-> FALSE]

copy_type_no_fallback(self, d) ==
    CASE d \in {"default", "clipboard"} -> "Regular"
      [] d = "primary" -> "Primary"
      [] OTHER -> "Both"

copy_type(self, d) ==
    CASE d \in {"default", "clipboard"} -> "Regular"
      [] d = "primary" /\ self.primary_supported -> "Primary"
      [] d = "both" /\ self.primary_supported -> "Both"
      [] OTHER -> "Regular"

paste_type(self, s) ==
    CASE s \in {"default", "clipboard"} -> "Regular"
      [] s = "primary" /\ self.primary_supported -> "Primary"
      [] OTHER -> "Regular"

None == [some |-> FALSE]
Some(v) == [some |-> TRUE, v |-> v]

Data(text, mime) == [data |-> text, mime |-> mime]

Wayland_copy(self, d, text, wlsel, outcome) ==
    LET r == wl_copy(copy_type(self, d), as_bytes(text), wlsel, outcome) IN
    IF r.res.ok THEN r
    ELSE [res |-> new_with_source(SystemError, r.res.err), wl |-> wlsel]

Wayland_paste_unfiltered(self, src, wlsel, outcome) ==
    LET got == get_contents(paste_type(self, src), wlsel, outcome) IN
    IF got.ok
    THEN IF outcome = "pipe_error" THEN new_with_source(SystemError, IoError)
         ELSE Ok(Data(from_utf8_lossy(got.pipe), Some(got.mime)))
    ELSE IF got.error.kind \in {"ClipboardEmpty", "NoSeats", "NoMimeType"}
         THEN Ok(Data(<<>>, None))
         ELSE new_with_source(SystemError, got.error.chain)

Wayland_paste_strict(self, src, wlsel, outcome) ==
    LET got == get_contents(paste_type(self, src), wlsel, outcome) IN
    IF got.ok
    THEN IF outcome = "pipe_error" THEN new_with_source(SystemError, IoError)
         ELSE IF starts_with(got.mime, <<"text/", "_moz">>)
              THEN Ok(Data(<<>>, None))
              ELSE IF \E i \in 1..Len(got.pipe) : got.pipe[i] = 255
                   THEN new_with_source(<<"invalid UTF-8">>,
                                        << <<"invalid utf-8 sequence">> >>)
                   ELSE Ok(Data(from_utf8_lossy(got.pipe), Some(got.mime)))
    ELSE IF got.error.kind \in {"ClipboardEmpty", "NoSeats", "NoMimeType"}
         THEN Ok(Data(<<>>, None))
         ELSE new_with_source(SystemError, got.error.chain)

Wayland_paste(self, src, wlsel, outcome) ==
    LET got == get_contents(paste_type(self, src), wlsel, outcome) IN
    IF got.ok
    THEN IF outcome = "pipe_error" THEN new_with_source(SystemError, IoError)
         ELSE IF starts_with(got.mime, <<"text/", "_moz">>)
              THEN Ok(Data(from_utf8_lossy(<<>>), None))
              ELSE Ok(Data(from_utf8_lossy(got.pipe), Some(got.mime)))
    ELSE IF got.error.kind \in {"ClipboardEmpty", "NoSeats", "NoMimeType"}
         THEN Ok(Data(<<>>, None))
         ELSE new_with_source(SystemError, got.error.chain)

\* ---------------------------------------------------------------- X11, native
\* A selection of the X server: unowned, or owned with the stored bytes.
Unowned == [owned |-> FALSE, bytes |-> <<>>]
Owned(bytes) == [owned |-> TRUE, bytes |-> bytes]

\* x11_clipboard::Clipboard::store
x11_store(atom, bytes, x11sel, outcome) ==
    IF outcome # "ok" THEN [res |-> Err(X11Error), x11 |-> x11sel]
    ELSE [res |-> Ok(<<>>), x11 |-> [x11sel EXCEPT ![atom] = Owned(bytes)]]

\* x11_clipboard::Clipboard::load, waiting at most 100 ms for the owner.
x11_load(atom, x11sel, outcome) ==
    IF outcome # "ok" THEN Err(X11Error) ELSE Ok(x11sel[atom].bytes)

\* --------------------------------------------------------------- X11Backend
X11Backend_new(connect_ok) ==
    IF connect_ok
    THEN Ok([kind |-> "x11", primary_supported |-> FALSE, convert_line_endings |-> FALSE])
    ELSE new_with_source(SystemError, X11Error)

source_atom_default_clipboard(s) ==
    IF s = "primary" THEN "PRIMARY" ELSE "CLIPBOARD"

source_atom(s) ==
    IF s \in {"default", "primary"} THEN "PRIMARY" ELSE "CLIPBOARD"

dest_atoms_both_is_primary(d) ==
    CASE d \in {"default", "primary", "both"} -> <<"PRIMARY">>
      [] OTHER -> <<"CLIPBOARD">>

dest_atoms(d) ==
    CASE d \in {"default", "primary"} -> <<"PRIMARY">>
      [] d = "clipboard" -> <<"CLIPBOARD">>
      [] OTHER -> <<"PRIMARY", "CLIPBOARD">>

\* The loop of X11Backend::copy over the atoms, each store with its outcome;
\* the first failure returns.
RECURSIVE X11_stores(_, _, _, _)
X11_stores(atoms, bytes, x11sel, outcomes) ==
    IF atoms = <<>> THEN [res |-> Ok(<<>>), x11 |-> x11sel]
    ELSE LET r == x11_store(Head(atoms), bytes, x11sel, Head(outcomes)) IN
         IF ~r.res.ok THEN [res |-> new_with_source(SystemError, r.res.err), x11 |-> r.x11]
         ELSE X11_stores(Tail(atoms), bytes, r.x11, Tail(outcomes))

X11_copy_all_or_nothing(d, text, x11sel, outcomes) ==
    LET r == X11_stores(dest_atoms(d), as_bytes(text), x11sel, outcomes) IN
    IF r.res.ok THEN r ELSE [r EXCEPT !.x11 = x11sel]

X11_copy(d, text, x11sel, outcomes) ==
    X11_stores(dest_atoms(d), as_bytes(text), x11sel, outcomes)

X11_paste(s, x11sel, outcome) ==
    LET contents == x11_load(source_atom(s), x11sel, outcome) IN
    IF ~contents.ok THEN new_with_source(SystemError, contents.err)
    ELSE Ok(Data(from_utf8_lossy(contents.val), None))

\* --------------------------------------------------------- backend factory
Unset == [set |-> FALSE, val |-> ""]
Set(v) == [set |-> TRUE, val |-> v]

have_env_var_set(v) == v.set

have_env_var(v) == IF v.set THEN v.val # "" ELSE FALSE

NoBackend == [kind |-> "none", primary_supported |-> FALSE, convert_line_endings |-> FALSE]

\* linux::Backend::new
Backend_new(environ, probe_ok, connect_ok) ==
    IF have_env_var(environ.WAYLAND_DISPLAY) THEN Ok(WaylandBackend_new(probe_ok))
    ELSE IF have_env_var(environ.DISPLAY) THEN X11Backend_new(connect_ok)
    ELSE Err(<<NoDisplayServer>>)

\* ------------------------------------------------------------ Windows, native
\* The system clipboard: no text format, or a text.
NoText == [has_text |-> FALSE, text |-> <<>>]
Text(t) == [has_text |-> TRUE, text |-> t]

\* The error code of the i-th failing attempt to open the clipboard:
\* ERROR_ACCESS_DENIED (5) and ERROR_CLIPBOARD_NOT_OPEN (1418) in turn, so
\* that consecutive attempts fail differently.
LockErrors(n) == [i \in 1..n |-> IF i % 2 = 1 THEN 5 ELSE 1418]

\* clipboard_win::get(formats::Unicode) under the lock: `code` is the error
\* the call fails with, 0 for none; an absent text format is error 1168.
win_get(clip, code) ==
    IF code # 0 THEN [ok |-> FALSE, raw_code |-> code]
    ELSE IF ~clip.has_text THEN [ok |-> FALSE, raw_code |-> 1168]
    ELSE [ok |-> TRUE, val |-> clip.text]

\* clipboard_win::set(formats::Unicode, data) under the lock.
win_set(text, clip, code) ==
    IF code # 0 THEN [res |-> Err(ErrorCode(code)), win |-> clip]
    ELSE [res |-> Ok(<<>>), win |-> Text(text)]

\* ---------------------------------------------------------- windows::Backend
Windows_new(argv) ==
    [kind |-> "windows", primary_supported |-> FALSE,
     convert_line_endings |-> ~("--keep-line-endings" \in argv)]

\* The loop of Backend::clipboard(): `errors` are the errors of the attempts
\* that fail, in order; an attempt past them succeeds.  `attempts` counts the
\* calls of Clipboard::new() and `slept` lists the sleeps, in ms.  `held`
\* tells whether this process holds the OS clipboard lock (the Clipboard guard
\* is alive) and `native` how the native get or set was called: not at all
\* ("none"), with the lock held ("locked") or without it ("unlocked").
RECURSIVE clipboard_loop(_, _, _, _, _)
clipboard_loop(tries, delay, errors, attempts, slept) ==
    IF errors = <<>>
    THEN [ok |-> TRUE, err |-> <<>>, attempts |-> attempts + 1, slept |-> slept,
          held |-> TRUE, native |-> "none"]
    ELSE LET tries1 == tries - 1 IN
         IF tries1 = 0
         THEN [ok |-> FALSE, err |-> new_with_source(SystemError, ErrorCode(Head(errors))).err,
               attempts |-> attempts + 1, slept |-> slept, held |-> FALSE, native |-> "none"]
         ELSE clipboard_loop(tries1, Min(delay * 2, 500), Tail(errors),
                             attempts + 1, Append(slept, delay))

clipboard_eleven_tries(errors) == clipboard_loop(11, 10, errors, 0, <<>>)

clipboard_sleeps_before_failing(errors) ==
    LET r == clipboard_loop(10, 10, errors, 0, <<>>) IN
    IF r.ok THEN r ELSE [r EXCEPT !.slept = Append(r.slept, 500)]

\* Backend::clipboard(): tries = 10, delay = 10.
clipboard(errors) == clipboard_loop(10, 10, errors, 0, <<>>)

NoLock == [ok |-> TRUE, err |-> <<>>, attempts |-> 0, slept |-> <<>>, held |-> FALSE,
           native |-> "none"]

\* A native call made while the guard cb is in scope, and the guard dropped
\* when the function returns.
Called(cb) == IF cb.held THEN "locked" ELSE "unlocked"
Dropped(cb) == [cb EXCEPT !.held = FALSE, !.native = Called(cb)]

Windows_get_only_1168(clip, nat) ==
    LET cb == clipboard(nat.lock) IN
    IF ~cb.ok THEN [res |-> Err(cb.err), lock |-> cb]
    ELSE LET got == win_get(clip, nat.code) IN
         [res |-> IF got.ok THEN Ok(got.val)
                  ELSE IF got.raw_code = 1168 THEN Ok(<<>>)
                  ELSE new_with_source(SystemError, ErrorCode(got.raw_code)),
          lock |-> Dropped(cb)]

\* Backend::get(): the guard _cb is dropped when get returns.
Windows_get(clip, nat) ==
    LET cb == clipboard(nat.lock) IN
    IF ~cb.ok THEN [res |-> Err(cb.err), lock |-> cb]
    ELSE LET got == win_get(clip, nat.code) IN
         [res |-> IF got.ok THEN Ok(got.val)
                  ELSE IF got.raw_code = 6 \/ got.raw_code = 1168 THEN Ok(<<>>)
                  ELSE new_with_source(SystemError, ErrorCode(got.raw_code)),
          lock |-> Dropped(cb)]

Windows_set_keeps_guard_on_error(text, clip, nat) ==
    LET cb == clipboard(nat.lock) IN
    IF ~cb.ok THEN [res |-> Err(cb.err), win |-> clip, lock |-> cb]
    ELSE LET r == win_set(text, clip, nat.code) IN
         IF r.res.ok THEN [res |-> r.res, win |-> r.win, lock |-> Dropped(cb)]
         ELSE [res |-> new_with_source(SystemError, r.res.err), win |-> r.win,
               lock |-> [Dropped(cb) EXCEPT !.held = TRUE]]

\* Backend::set(): the guard _cb is dropped when set returns.
Windows_set(text, clip, nat) ==
    LET cb == clipboard(nat.lock) IN
    IF ~cb.ok THEN [res |-> Err(cb.err), win |-> clip, lock |-> cb]
    ELSE LET r == win_set(text, clip, nat.code) IN
         [res |-> IF r.res.ok THEN r.res ELSE new_with_source(SystemError, r.res.err),
          win |-> r.win, lock |-> Dropped(cb)]

Windows_copy(self, text, clip, nat) ==
    IF self.convert_line_endings
    THEN Windows_set(replace(text, <<"LF">>, <<"CR", "LF">>), clip, nat)
    ELSE Windows_set(text, clip, nat)

Windows_paste_unconverted(self, clip, nat) ==
    LET got == Windows_get(clip, nat) IN
    IF ~got.res.ok THEN got
    ELSE [got EXCEPT !.res = Ok(Data(got.res.val, None))]

Windows_paste(self, clip, nat) ==
    LET got == Windows_get(clip, nat) IN
    IF ~got.res.ok THEN got
    ELSE [got EXCEPT !.res =
             Ok(Data(IF self.convert_line_endings
                     THEN replace(got.res.val, <<"CR", "LF">>, <<"LF">>)
                     ELSE got.res.val, None))]

\* -------------------------------------------------------------------- state
VARIABLES
    platform,   \* target_os of the build: "linux" or "windows"
    args,       \* the command-line flags
    env,        \* the environment Backend::new() reads: WAYLAND_DISPLAY and
                \* DISPLAY; nothing reads it once the backend is chosen, and
                \* it is Consulted from then on
    pc,         \* where run() is: "start", "loop" (about to read a line),
                \* "write" (about to write the response), "done" (exited)
    backend,    \* Clipboard.backend, NoBackend before new_clipboard()
    wl,         \* the compositor's selections: regular and primary
    x11,        \* the X server's selections: PRIMARY and CLIPBOARD
    win,        \* the Windows system clipboard
    cur,        \* the input line being processed
    resp,       \* the response line computed for cur
    err,        \* the cause chain of the error process_request returned
    nat,        \* the outcomes of the native calls made for cur
    lock,       \* what Backend::clipboard() did for cur (Windows)
    pending,    \* input lines read minus response lines written
    last,       \* the exchange before cur, or that another application wrote since
    exit,       \* the process's exit: [exited, code, reason]
    stderr      \* the lines written to the error stream

vars == <<platform, args, env, pc, backend, wl, x11, win, cur, resp, err, nat,
          lock, pending, last, exit, stderr>>

NoLine == [json |-> "none"]
NoResp == [none |-> TRUE]
NoNat == [call |-> "none"]
NoLast == [kind |-> "none", ok |-> FALSE, dest |-> "", data |-> <<>>]
Running == [exited |-> FALSE, code |-> 0, reason |-> ""]

EnvVals == {Unset, Set(""), Set("display-0")}
Consulted == [set |-> FALSE, val |-> "consulted"]

\* -------------------------------------------------------- protocol dispatcher
\* The outcomes the native calls of a request can have.
\* Windows: `levels` are the numbers of consecutive failures of the lock that
\* may happen; `code` is the error of the get or set made under the lock.
LockOutcomes(levels) ==
    {o \in {[call |-> "locked", lock |-> LockErrors(n), code |-> c] :
                n \in levels, c \in {0, 5, 6, 1168}} :
        Len(o.lock) >= 10 => o.code = 0}

\* The lock is free, is taken at the second attempt, or is never taken.
FewLevels == {0, 1, 10}
AllLevels == 0..MaxContention

Outcomes(self, line, levels) ==
    IF line.json # "object" THEN {NoNat}
    ELSE LET a == parse(line) IN
         IF ~a.ok \/ a.val.action = "query" THEN {NoNat}
         ELSE CASE self.kind = "wayland" /\ a.val.action = "copy" ->
                      {[call |-> c] : c \in {"ok", "error"}}
                [] self.kind = "wayland" /\ a.val.action = "paste" ->
                      {[call |-> c] : c \in {"ok", "NoSeats", "error", "pipe_error"}}
                [] self.kind = "x11" /\ a.val.action = "copy" ->
                      {[call |-> "store", stores |-> o] :
                          o \in {q \in SeqsUpTo({"ok", "error"}, 2) :
                                    Len(q) = Len(dest_atoms(a.val.dest))}}
                [] self.kind = "x11" /\ a.val.action = "paste" ->
                      {[call |-> c] : c \in {"ok", "error"}}
                [] OTHER -> LockOutcomes(levels)

\* serde_json::from_str::<Map<String, Value>>(line)
from_str(line) ==
    CASE line.json = "garbage" -> Err(<< <<"expected value at line 1 column 1">> >>)
      [] line.json = "array" -> Err(<< <<"invalid type: sequence, expected a map">> >>)
      [] OTHER -> Ok(line)

Backend_copy_primary_unsupported(self, d, text, os, n) ==
    CASE self.kind = "wayland" ->
            LET r == Wayland_copy(self, d, text, os.wl, n.call) IN
            [res |-> r.res, wl |-> r.wl, x11 |-> os.x11, win |-> os.win, lock |-> NoLock]
      [] self.kind = "x11" ->
            LET r == X11_copy(d, text, os.x11, n.stores) IN
            [res |-> r.res, wl |-> os.wl, x11 |-> r.x11, win |-> os.win, lock |-> NoLock]
      [] OTHER ->
            IF d = "primary"
            THEN [res |-> Err(<<SystemError>>), wl |-> os.wl, x11 |-> os.x11, win |-> os.win,
                  lock |-> NoLock]
            ELSE LET r == Windows_copy(self, text, os.win, n) IN
                 [res |-> r.res, wl |-> os.wl, x11 |-> os.x11, win |-> r.win, lock |-> r.lock]

\* Backend::copy of the backend in use: the result and the clipboards after it.
Backend_copy(self, d, text, os, n) ==
    CASE self.kind = "wayland" ->
            LET r == Wayland_copy(self, d, text, os.wl, n.call) IN
            [res |-> r.res, wl |-> r.wl, x11 |-> os.x11, win |-> os.win, lock |-> NoLock]
      [] self.kind = "x11" ->
            LET r == X11_copy(d, text, os.x11, n.stores) IN
            [res |-> r.res, wl |-> os.wl, x11 |-> r.x11, win |-> os.win, lock |-> NoLock]
      [] OTHER ->
            LET r == Windows_copy(self, text, os.win, n) IN
            [res |-> r.res, wl |-> os.wl, x11 |-> os.x11, win |-> r.win, lock |-> r.lock]

Backend_paste_cached(self, s, os, n) ==
    IF last.kind = "copy"
    THEN [res |-> Ok(Data(last.data, None)), lock |-> NoLock]
    ELSE CASE self.kind = "wayland" ->
                 [res |-> Wayland_paste(self, s, os.wl, n.call), lock |-> NoLock]
           [] self.kind = "x11" ->
                 [res |-> X11_paste(s, os.x11, n.call), lock |-> NoLock]
           [] OTHER ->
                 LET r == Windows_paste(self, os.win, n) IN [res |-> r.res, lock |-> r.lock]

\* Backend::paste of the backend in use.
Backend_paste(self, s, os, n) ==
    CASE self.kind = "wayland" ->
            [res |-> Wayland_paste(self, s, os.wl, n.call), lock |-> NoLock]
      [] self.kind = "x11" ->
            [res |-> X11_paste(s, os.x11, n.call), lock |-> NoLock]
      [] OTHER ->
            LET r == Windows_paste(self, os.win, n) IN [res |-> r.res, lock |-> r.lock]

process_request_paste_takes(self, line, os, n) ==
    LET same == [wl |-> os.wl, x11 |-> os.x11, win |-> os.win, lock |-> NoLock]
        obj == from_str(line)
    IN
    IF ~obj.ok THEN [res |-> obj] @@ same
    ELSE LET a == parse(obj.val) IN
         IF ~a.ok THEN [res |-> a] @@ same
         ELSE CASE a.val.action = "query" -> [res |-> Ok(query)] @@ same
                [] a.val.action = "copy" ->
                     LET r == Backend_copy(self, a.val.dest, a.val.data, os, n) IN
                     IF r.res.ok THEN [r EXCEPT !.res = Ok(<<>>)] ELSE r
                [] OTHER ->
                     LET r == Backend_paste(self, a.val.source, os, n) IN
                     IF ~r.res.ok THEN [res |-> r.res] @@ [same EXCEPT !.lock = r.lock]
                     ELSE [res |-> Ok(IF r.res.val.mime.some
                                      THEN [success |-> TRUE, data |-> r.res.val.data,
                                            mime |-> r.res.val.mime.v]
                                      ELSE [success |-> TRUE, data |-> r.res.val.data])]
                          @@ [same EXCEPT !.lock = r.lock,
                                          !.wl = [k \in DOMAIN os.wl |-> NoOffer],
                                          !.x11 = [k \in DOMAIN os.x11 |-> Unowned],
                                          !.win = NoText]

\* Clipboard::process_request: the response map or the error, and the
\* clipboards after the request.
process_request(self, line, os, n) ==
    LET same == [wl |-> os.wl, x11 |-> os.x11, win |-> os.win, lock |-> NoLock]
        obj == from_str(line)
    IN
    IF ~obj.ok THEN [res |-> obj] @@ same
    ELSE LET a == parse(obj.val) IN
         IF ~a.ok THEN [res |-> a] @@ same
         ELSE CASE a.val.action = "query" -> [res |-> Ok(query)] @@ same
                [] a.val.action = "copy" ->
                     LET r == Backend_copy(self, a.val.dest, a.val.data, os, n) IN
                     IF r.res.ok THEN [r EXCEPT !.res = Ok(<<>>)] ELSE r
                [] OTHER ->
                     LET r == Backend_paste(self, a.val.source, os, n) IN
                     IF ~r.res.ok THEN [res |-> r.res] @@ [same EXCEPT !.lock = r.lock]
                     ELSE [res |-> Ok(IF r.res.val.mime.some
                                      THEN [success |-> TRUE, data |-> r.res.val.data,
                                            mime |-> r.res.val.mime.v]
                                      ELSE [success |-> TRUE, data |-> r.res.val.data])]
                          @@ [same EXCEPT !.lock = r.lock]

response_always_success(res) ==
    [success |-> TRUE] @@ (IF res.ok THEN res.val ELSE <<>>)

response_without_message(res) ==
    IF res.ok THEN [success |-> TRUE] @@ res.val
    ELSE [success |-> FALSE]

\* The body of run()'s loop for one result of process_request: the line
\* written to stdout.
response(res) ==
    IF res.ok THEN [success |-> TRUE] @@ res.val
    ELSE [success |-> FALSE, message |-> res.err[1]]

\* ------------------------------------------------------------------ actions
NoSelections ==
    /\ wl = [s \in {"regular", "primary"} |-> NoOffer]
    /\ x11 = [a \in {"PRIMARY", "CLIPBOARD"} |-> Unowned]
    /\ win = NoText

Init ==
    /\ platform \in {"linux", "windows"}
    /\ args \in SUBSET {"--query", "--keep-line-endings"}
    /\ env \in [{"WAYLAND_DISPLAY", "DISPLAY"} -> EnvVals]
    /\ platform = "windows" => env = [v \in {"WAYLAND_DISPLAY", "DISPLAY"} |-> Unset]
    /\ platform = "linux" => ~("--keep-line-endings" \in args)
    /\ pc = "start"
    /\ backend = NoBackend
    /\ NoSelections
    /\ cur = NoLine
    /\ resp = NoResp
    /\ err = <<>>
    /\ nat = NoNat
    /\ lock = NoLock
    /\ pending = 0
    /\ last = NoLast
    /\ exit = Running
    /\ stderr = <<>>

\* main(): run().or_else(|err| writeln!(io::stderr(), "Error: {}", err)).
\* The exit status is that of the io::Result main returns.
main(run_result, reason, stderr_ok) ==
    IF run_result.ok
    THEN /\ exit' = [exited |-> TRUE, code |-> 0, reason |-> reason]
         /\ stderr' = stderr
    ELSE IF stderr_ok
         THEN /\ exit' = [exited |-> TRUE, code |-> 0, reason |-> reason]
              /\ stderr' = Append(stderr, <<"Error: ", run_result.err[1]>>)
         ELSE /\ exit' = [exited |-> TRUE, code |-> 1, reason |-> reason]
              /\ stderr' = stderr

\* new_clipboard(): linux::Backend::new() or windows::Backend::new().
new_clipboard(probe_ok, connect_ok) ==
    IF platform = "windows" THEN Ok(Windows_new(args))
    ELSE Backend_new(env, probe_ok, connect_ok)

\* run() with --query: the map of query() is written as it is, no backend is
\* created and no input is read; a failed write is returned to main.
RunQuery ==
    /\ pc = "start"
    /\ "--query" \in args
    /\ \E stdout_ok \in BOOLEAN, stderr_ok \in BOOLEAN :
          IF stdout_ok
          THEN /\ resp' = query
               /\ main(Ok(<<>>), "query", TRUE)
          ELSE /\ resp' = NoResp
               /\ main(Err(IoError), "io", stderr_ok)
    /\ pc' = "done"
    /\ UNCHANGED <<platform, args, env, backend, wl, x11, win, cur, err, nat, lock,
                   pending, last>>

\* run() up to its loop: the backend is created.
RunStart ==
    /\ pc = "start"
    /\ ~("--query" \in args)
    /\ \E probe_ok \in BOOLEAN, connect_ok \in BOOLEAN :
          LET c == new_clipboard(probe_ok, connect_ok) IN
          /\ c.ok
          /\ backend' = c.val
    /\ env' = [v \in DOMAIN env |-> Consulted]
    /\ pc' = "loop"
    /\ UNCHANGED <<platform, args, wl, x11, win, cur, resp, err, nat, lock,
                   pending, last, exit, stderr>>

\* run() returns the error of new_clipboard().
RunStartFails ==
    /\ pc = "start"
    /\ ~("--query" \in args)
    /\ \E probe_ok \in BOOLEAN, connect_ok \in BOOLEAN, stderr_ok \in BOOLEAN :
          LET c == new_clipboard(probe_ok, connect_ok) IN
          /\ ~c.ok
          /\ err' = c.err
          /\ main(c, "startup", stderr_ok)
    /\ pc' = "done"
    /\ UNCHANGED <<platform, args, env, backend, wl, x11, win, cur, resp, nat, lock,
                   pending, last>>

ReadLineOf_before_write(lines, levels) ==
    /\ pc \in {"loop", "write"}
    /\ \E line \in lines :
         \E n \in Outcomes(backend, line, levels) :
            LET r == process_request(backend, line, [wl |-> wl, x11 |-> x11, win |-> win], n) IN
            /\ cur' = line
            /\ nat' = n
            /\ resp' = response(r.res)
            /\ err' = IF r.res.ok THEN <<>> ELSE r.res.err
            /\ wl' = r.wl
            /\ x11' = r.x11
            /\ win' = r.win
            /\ lock' = r.lock
    /\ pending' = pending + 1
    /\ pc' = "write"
    /\ UNCHANGED <<platform, args, env, backend, last, exit, stderr>>

\* One line is read and process_request computes its response.
ReadLineOf(lines, levels) ==
    /\ pc = "loop"
    /\ \E line \in lines :
         \E n \in Outcomes(backend, line, levels) :
            LET r == process_request(backend, line, [wl |-> wl, x11 |-> x11, win |-> win], n) IN
            /\ cur' = line
            /\ nat' = n
            /\ resp' = response(r.res)
            /\ err' = IF r.res.ok THEN <<>> ELSE r.res.err
            /\ wl' = r.wl
            /\ x11' = r.x11
            /\ win' = r.win
            /\ lock' = r.lock
    /\ pending' = pending + 1
    /\ pc' = "write"
    /\ UNCHANGED <<platform, args, env, backend, last, exit, stderr>>

ReadLine == ReadLineOf(Lines, FewLevels)

\* What is remembered of an exchange when the next line is read.
Exchange(line, r) ==
    IF line.json = "garbage" THEN [NoLast EXCEPT !.kind = "garbage", !.ok = r.success]
    ELSE IF line.json = "object" /\ parse(line).ok /\ parse(line).val.action = "copy" /\ r.success
         THEN [kind |-> "copy", ok |-> TRUE, dest |-> parse(line).val.dest,
               data |-> parse(line).val.data]
         ELSE [NoLast EXCEPT !.kind = "other", !.ok = r.success]

\* writeln!(stdout, "{}", res) and stdout.flush().
WriteResponse ==
    /\ pc = "write"
    /\ pending' = pending - 1
    /\ last' = Exchange(cur, resp)
    /\ cur' = NoLine
    /\ resp' = NoResp
    /\ err' = <<>>
    /\ nat' = NoNat
    /\ lock' = NoLock
    /\ pc' = "loop"
    /\ UNCHANGED <<platform, args, env, backend, wl, x11, win, exit, stderr>>

\* The process ends: what it held is gone, the clipboards stay.
Exited ==
    /\ pc' = "done"
    /\ cur' = NoLine
    /\ resp' = NoResp
    /\ err' = <<>>
    /\ nat' = NoNat
    /\ lock' = NoLock
    /\ last' = NoLast
    /\ UNCHANGED <<platform, args, env, backend, wl, x11, win, pending>>

\* writeln! or flush fails: run() returns the error.
WriteFails ==
    /\ pc = "write"
    /\ \E stderr_ok \in BOOLEAN : main(Err(IoError), "io", stderr_ok)
    /\ Exited

\* stdin.lines() yields an error: run() returns it.
ReadFails ==
    /\ pc = "loop"
    /\ \E stderr_ok \in BOOLEAN : main(Err(IoError), "io", stderr_ok)
    /\ Exited

\* End of input: run() returns Ok(()).
EndOfInput ==
    /\ pc = "loop"
    /\ main(Ok(<<>>), "eof", TRUE)
    /\ Exited

\* Another application takes a selection, between two requests: it clears
\* it, or offers a text, a Firefox-internal type, an image, or bytes that are
\* no UTF-8.
ExternalOffers ==
    {NoOffer, Offer(MozHtmlInfo, as_bytes(<<"LF">>)), Offer(ImagePng, <<255>>),
     Offer(TextPlain, <<255>>)}

ExternalWrite ==
    /\ pc = "loop"
    /\ \/ /\ backend.kind = "wayland"
          /\ \E s \in {"regular", "primary"}, o \in ExternalOffers :
                /\ wl[s] # o
                /\ wl' = [wl EXCEPT ![s] = o]
          /\ UNCHANGED <<x11, win>>
       \/ /\ backend.kind = "x11"
          /\ \E a \in {"PRIMARY", "CLIPBOARD"}, o \in {Unowned, Owned(<<255>>)} :
                /\ x11[a] # o
                /\ x11' = [x11 EXCEPT ![a] = o]
          /\ UNCHANGED <<wl, win>>
       \/ /\ backend.kind = "windows"
          /\ \E o \in {NoText, Text(<<"CR", "LF">>)} :
                /\ win # o
                /\ win' = o
          /\ UNCHANGED <<wl, x11>>
    /\ last' = [NoLast EXCEPT !.kind = "external"]
    /\ UNCHANGED <<platform, args, env, pc, backend, cur, resp, err, nat, lock,
                   pending, exit, stderr>>

Next ==
    \/ RunQuery
    \/ RunStart
    \/ RunStartFails
    \/ ReadLine
    \/ WriteResponse
    \/ WriteFails
    \/ ReadFails
    \/ EndOfInput
    \/ ExternalWrite

Spec == Init /\ [][Next]_vars

\* The Windows build under every level of lock contention, with one request of
\* each kind.
LockLines ==
    {[json |-> "garbage"], Obj(Str("query"), Absent, Absent),
     Obj(Str("paste"), Absent, Absent), Obj(Str("copy"), Absent, Str(<<"LF">>)),
     Obj(Str("copy"), Str("both"), Str(<<>>))}

ReadLineLock == ReadLineOf(LockLines, AllLevels)

InitLock == Init /\ platform = "windows"

NextLock ==
    \/ RunQuery
    \/ RunStart
    \/ ReadLineLock
    \/ WriteResponse
    \/ WriteFails
    \/ ReadFails
    \/ EndOfInput
    \/ ExternalWrite

SpecLock == InitLock /\ [][NextLock]_vars

\* ------------------------------------------------------- reading the state
\* The action cur asks for, when cur is a request that parse accepts.
Accepted(line) == line.json = "object" /\ parse(line).ok
IsCopy(line) == Accepted(line) /\ parse(line).val.action = "copy"
IsPaste(line) == Accepted(line) /\ parse(line).val.action = "paste"
IsQuery(line) == Accepted(line) /\ parse(line).val.action = "query"

\* No native call made for cur failed.
NativeOk ==
    \/ nat.call = "ok"
    \/ nat.call = "store" /\ \A i \in 1..Len(nat.stores) : nat.stores[i] = "ok"
    \/ nat.call = "locked" /\ Len(nat.lock) < 10 /\ nat.code = 0

\* ------------------------------------------------------------------ claims

\* C1: a successful copy of a text t that is followed, with no other writer
\* of the clipboard in between, by a paste with the matching selector
\* (default, primary or clipboard), whose native calls do not fail, is
\* answered with success and data = t, on every backend.
RoundTrip ==
    (/\ pc = "write"
     /\ IsPaste(cur)
     /\ last.kind = "copy"
     /\ last.dest = parse(cur).val.source
     /\ NativeOk)
    => /\ resp.success
       /\ resp.data = last.data

RoundTripWitness ==
    /\ pc = "write"
    /\ IsPaste(cur)
    /\ last.kind = "copy"
    /\ last.dest = parse(cur).val.source
    /\ NativeOk
    /\ backend.kind = "windows"
    /\ backend.convert_line_endings
    /\ last.data = <<"CR", "LF">>
    /\ win = Text(<<"CR", "CR", "LF">>)
    /\ resp = [success |-> TRUE, data |-> <<"CR", "LF">>]

\* C2: every line read is answered by one response before the next is read,
\* whatever the line: a line that is no JSON object is answered with a
\* failure, a query with a success, and a query that follows a failed non-JSON
\* line is still answered with a success; the loop ends at the end of input
\* with every line answered.
MalformedInputResilience ==
    /\ pending \in {0, 1}
    /\ pc = "loop" => pending = 0
    /\ pc = "write" => pending = 1 /\ cur # NoLine /\ resp # NoResp
    /\ (pc = "write" /\ cur.json \in {"garbage", "array"}) => ~resp.success
    /\ (pc = "write" /\ IsQuery(cur)) => resp.success
    /\ last.kind = "garbage" => ~last.ok /\ pc \in {"loop", "write"}
    /\ (exit.exited /\ exit.reason = "eof") => pending = 0

MalformedInputWitness ==
    /\ pc = "write"
    /\ last.kind = "garbage"
    /\ ~last.ok
    /\ cur = Obj(Str("query"), Absent, Absent)
    /\ resp = [success |-> TRUE, version |-> VERSION]

\* The `source` nesting of a failure response, as the list of its messages.
RECURSIVE Messages(_)
Messages(r) ==
    <<r.message>> \o (IF "source" \in DOMAIN r THEN Messages(r.source) ELSE <<>>)

\* C3: the failure response of a request whose error has n causes carries
\* `source` nested n levels deep, each level with the message of its cause.
ErrorChainSerialized ==
    (pc = "write" /\ ~resp.success) => Messages(resp) = err

\* C4: the exit status is non-zero exactly when the backend could not be
\* created, and then no line was read and no response was written.
FatalStartup ==
    exit.exited =>
        /\ exit.code # 0 <=> exit.reason = "startup"
        /\ exit.reason = "startup" => pending = 0 /\ resp = NoResp

\* C5: a Windows get or set whose lock fails N < 10 times in a row and is then
\* granted holds the lock after N + 1 attempts and makes its native call; when
\* the lock fails 10 times in a row the request fails with a System error
\* whose cause is the error of the 10th attempt, and no 11th attempt is made.
LockRetryOutcome ==
    (pc = "write" /\ nat.call = "locked") =>
        LET N == Len(nat.lock) IN
        /\ lock.attempts <= 10
        /\ N < 10 =>
              /\ lock.ok
              /\ lock.attempts = N + 1
              /\ nat.code = 0 => resp.success
              /\ ~resp.success => err = <<SystemError>> \o ErrorCode(nat.code)
              /\ (IsCopy(cur) /\ resp.success) => win.has_text
        /\ N >= 10 =>
              /\ ~lock.ok
              /\ lock.attempts = 10
              /\ ~resp.success
              /\ resp.message = SystemError
              /\ err = <<SystemError>> \o ErrorCode(nat.lock[10])

LockRetryWitness ==
    /\ pc = "write"
    /\ nat.call = "locked"
    /\ Len(nat.lock) = 11
    /\ nat.lock[9] # nat.lock[10]
    /\ lock.attempts = 10
    /\ resp = [success |-> FALSE, message |-> SystemError]

\* An environment variable is usable when it is set to a non-empty value.
Usable(v) == v \notin {Unset, Set("")}

\* C6: the step that leaves startup on Linux chooses Wayland iff
\* WAYLAND_DISPLAY is usable; otherwise X11 iff DISPLAY is usable, a failed
\* connection ending the process with a System error; otherwise it ends the
\* process with the no-display-server error; the backend chosen never changes.
BackendFactory ==
    [][/\ (pc = "start" /\ pc' # "start" /\ platform = "linux" /\ ~("--query" \in args)) =>
            /\ Usable(env.WAYLAND_DISPLAY) =>
                  pc' = "loop" /\ backend'.kind = "wayland"
            /\ (~Usable(env.WAYLAND_DISPLAY) /\ Usable(env.DISPLAY)) =>
                  \/ pc' = "loop" /\ backend'.kind = "x11"
                  \/ /\ pc' = "done"
                     /\ backend' = NoBackend
                     /\ exit'.reason = "startup"
                     /\ err' = <<SystemError>> \o X11Error
            /\ (~Usable(env.WAYLAND_DISPLAY) /\ ~Usable(env.DISPLAY)) =>
                  /\ pc' = "done"
                  /\ backend' = NoBackend
                  /\ exit'.reason = "startup"
                  /\ err' = <<NoDisplayServer>>
       /\ backend # NoBackend => backend' = backend]_vars

BackendFactoryWitness ==
    /\ pc = "done"
    /\ exit.reason = "startup"
    /\ env.WAYLAND_DISPLAY = Set("")
    /\ env.DISPLAY = Set("")
    /\ err = <<NoDisplayServer>>

\* C7: on a Wayland backend without primary-selection support a copy to
\* primary or both and a paste from primary have the effect and the response
\* of the same request with `clipboard`, and fail only when the native call
\* does; with support, primary is the primary selection and both is the two
\* selections.
SelectorFallback ==
    [][(/\ pc = "loop"
        /\ pc' = "write"
        /\ backend.kind = "wayland"
        /\ Accepted(cur')
        /\ cur'.clipboard \in {Str("primary"), Str("both")}) =>
          LET os == [wl |-> wl, x11 |-> x11, win |-> win]
              same == process_request(backend, [cur' EXCEPT !.clipboard = Str("clipboard")],
                                      os, nat')
              a == parse(cur').val
          IN
          IF ~backend.primary_supported
          THEN /\ resp' = response(same.res)
               /\ wl' = same.wl
               /\ NativeOk' => resp'.success
          ELSE /\ (IsCopy(cur') /\ resp'.success) =>
                     /\ wl'.primary = Offer(TextPlain, as_bytes(a.data))
                     /\ wl'.regular = IF a.dest = "both" THEN wl'.primary ELSE wl.regular
               /\ (IsPaste(cur') /\ NativeOk' /\ wl.primary.present /\ wl.primary.mime = TextPlain) =>
                     resp' = [success |-> TRUE, data |-> from_utf8_lossy(wl.primary.bytes),
                              mime |-> TextPlain]
      ]_vars

SelectorFallbackWitness ==
    /\ pc = "write"
    /\ backend.kind = "wayland"
    /\ ~backend.primary_supported
    /\ cur = Obj(Str("copy"), Str("both"), Str(<<"LF">>))
    /\ resp = [success |-> TRUE]
    /\ wl.regular = Offer(TextPlain, <<10>>)
    /\ ~wl.primary.present

\* The selections the X11 backend is to use for a destination and a source.
StoredAtoms(d) ==
    CASE d \in {"default", "primary"} -> {"PRIMARY"}
      [] d = "clipboard" -> {"CLIPBOARD"}
      [] d = "both" -> {"PRIMARY", "CLIPBOARD"}

LoadedAtom(s) == IF s = "clipboard" THEN "CLIPBOARD" ELSE "PRIMARY"

\* C8: on X11 a successful copy stores the text in PRIMARY for default and
\* primary, in CLIPBOARD for clipboard and in both for both, and in no other
\* selection; a paste whose load succeeds returns the content of PRIMARY for
\* default and primary and of CLIPBOARD for clipboard and changes nothing; so a
\* paste from either selection after a copy to both returns the text copied.
BothDestinationCopy ==
    [][(pc = "loop" /\ pc' = "write" /\ backend.kind = "x11") =>
          /\ (IsCopy(cur') /\ resp'.success) =>
                LET a == parse(cur').val IN
                x11' = [k \in {"PRIMARY", "CLIPBOARD"} |->
                          IF k \in StoredAtoms(a.dest) THEN Owned(as_bytes(a.data)) ELSE x11[k]]
          /\ (IsPaste(cur') /\ NativeOk') =>
                /\ resp' = [success |-> TRUE,
                            data |-> from_utf8_lossy(x11[LoadedAtom(parse(cur').val.source)].bytes)]
                /\ x11' = x11
          /\ (IsPaste(cur') /\ NativeOk' /\ last.kind = "copy" /\ last.dest = "both") =>
                resp'.data = last.data
      ]_vars

BothDestinationWitness ==
    /\ pc = "write"
    /\ backend.kind = "x11"
    /\ last = [kind |-> "copy", ok |-> TRUE, dest |-> "both", data |-> <<"LF">>]
    /\ cur = Obj(Str("paste"), Str("clipboard"), Absent)
    /\ NativeOk
    /\ resp = [success |-> TRUE, data |-> <<"LF">>]

\* The selection a Wayland paste reads.
PastedOffer ==
    wl[IF parse(cur).val.source = "primary" /\ backend.primary_supported
       THEN "primary" ELSE "regular"]

\* C9: a Wayland paste that reads an offer whose MIME type begins with
\* text/_moz answers success with empty data and no mime, whatever the offer's
\* bytes; no response carries a mime that begins with text/_moz.
FirefoxQuirkFiltering ==
    /\ (/\ pc = "write"
        /\ backend.kind = "wayland"
        /\ IsPaste(cur)
        /\ NativeOk
        /\ PastedOffer.present
        /\ IsPrefix(<<"text/", "_moz">>, PastedOffer.mime))
       => resp = [success |-> TRUE, data |-> <<>>]
    /\ (pc = "write" /\ "mime" \in DOMAIN resp) => ~IsPrefix(<<"text/", "_moz">>, resp.mime)

FirefoxQuirkWitness ==
    /\ pc = "write"
    /\ backend.kind = "wayland"
    /\ cur = Obj(Str("paste"), Absent, Absent)
    /\ NativeOk
    /\ wl.regular = Offer(MozHtmlInfo, <<10>>)
    /\ resp = [success |-> TRUE, data |-> <<>>]

\* C10: a paste answers success with empty data and no mime when, on
\* Wayland, there is no seat, the selection is empty or offers no text type,
\* and when, on Windows, the get made under the lock fails with code 6 or
\* 1168; a paste whose native call fails in any other way answers a failure.
NormalizedNonErrors ==
    (pc = "write" /\ IsPaste(cur)) =>
        CASE backend.kind = "wayland" ->
                LET empty == \/ nat.call = "NoSeats"
                             \/ ~PastedOffer.present
                             \/ PastedOffer.mime[1] # "text/"
                IN /\ empty => resp = [success |-> TRUE, data |-> <<>>]
                   /\ (~empty /\ nat.call \in {"error", "pipe_error"}) => ~resp.success
          [] backend.kind = "windows" ->
                LET code == IF nat.code # 0 THEN nat.code
                            ELSE IF win.has_text THEN 0 ELSE 1168
                IN /\ (lock.ok /\ code \in {6, 1168}) => resp = [success |-> TRUE, data |-> <<>>]
                   /\ (lock.ok /\ code \notin {0, 6, 1168}) => ~resp.success
                   /\ ~lock.ok => ~resp.success
          [] OTHER -> ~NativeOk => ~resp.success

NormalizedNonErrorsWitness ==
    /\ pc = "write"
    /\ IsPaste(cur)
    /\ backend.kind = "windows"
    /\ lock.ok
    /\ nat.code = 6
    /\ win.has_text
    /\ resp = [success |-> TRUE, data |-> <<>>]

\* C11: a successful paste response whose data is the empty string carries
\* no mime field, on every backend and for every native outcome.
NoMimeOnEmptyContent ==
    (pc = "write" /\ IsPaste(cur) /\ resp.success /\ resp.data = <<>>)
        => "mime" \notin DOMAIN resp

\* The request was refused before any backend call: a failure whose error is
\* a request error with no cause, no native call, no clipboard changed.
RejectedStep ==
    /\ ~resp'.success
    /\ Len(err') = 1
    /\ err'[1] # SystemError
    /\ nat' = NoNat
    /\ lock' = NoLock
    /\ wl' = wl /\ x11' = x11 /\ win' = win

\* C12: a copy request whose data is absent or is no string is answered with
\* a failure that is a request error; the backend's copy is not called and no
\* selection changes.
CopyRequiresStringData ==
    [][(/\ pc = "loop"
        /\ pc' = "write"
        /\ cur'.json = "object"
        /\ cur'.action = Str("copy")
        /\ cur'.data.t # "string") => RejectedStep
      ]_vars

CopyRequiresStringDataWitness ==
    /\ pc = "write"
    /\ cur = Obj(Str("copy"), Str("clipboard"), Absent)
    /\ ~resp.success
    /\ resp.message = <<"Request is missing data">>

\* The selectors a request may name.
PasteSelectors == {Absent, Str("default"), Str("primary"), Str("clipboard")}
CopySelectors == PasteSelectors \cup {Str("both")}

\* C13: a paste is accepted only with clipboard absent or default, primary
\* or clipboard, a copy (with string data) also with both; any other string
\* or value, and a missing, non-string or unknown action, is answered with a
\* failure without a backend call.  An accepted request fails only with a
\* system error.
SelectorValidation ==
    [][(pc = "loop" /\ pc' = "write" /\ cur'.json = "object") =>
          LET accepted == ~resp'.success => (Len(err') > 1 /\ err'[1] = SystemError) IN
          CASE cur'.action = Str("paste") ->
                  IF cur'.clipboard \in PasteSelectors
                  THEN accepted /\ nat' # NoNat
                  ELSE RejectedStep
            [] cur'.action = Str("copy") ->
                  IF cur'.clipboard \in CopySelectors
                  THEN cur'.data.t = "string" => accepted /\ nat' # NoNat
                  ELSE RejectedStep
            [] cur'.action = Str("query") -> resp'.success
            [] OTHER -> RejectedStep
      ]_vars

SelectorValidationWitness ==
    /\ pc = "write"
    /\ cur = Obj(Str("paste"), Str("both"), Absent)
    /\ resp = [success |-> FALSE, message |-> <<"Invalid clipboard source: ", "both">>]
    /\ nat = NoNat

\* C14: started with --query the process creates no backend and reads no
\* line, also with no display server; the one line it writes is the object
\* the request loop answers to {"action":"query"}, success true and the
\* version, and it exits with status 0.
QueryFlag ==
    [][(pc = "start" /\ "--query" \in args /\ exit'.reason = "query") =>
          /\ pc' = "done"
          /\ backend' = NoBackend
          /\ cur' = NoLine
          /\ pending' = 0
          /\ resp' = [success |-> TRUE, version |-> VERSION]
          /\ \A self \in {WaylandBackend_new(TRUE), X11Backend_new(TRUE).val, Windows_new({})} :
                resp' = response(process_request(self, Obj(Str("query"), Absent, Absent),
                                                 [wl |-> wl, x11 |-> x11, win |-> win],
                                                 NoNat).res)
          /\ exit'.code = 0
      ]_vars

\* C15: every response line of the request loop has a boolean success, true
\* iff process_request returned no error; a successful copy is answered with
\* success alone, a successful query with success and version, a successful
\* paste with success, data and possibly mime, a failure with success false
\* and a message.
ResponseShape ==
    pc = "write" =>
        /\ "success" \in DOMAIN resp
        /\ resp.success \in BOOLEAN
        /\ resp.success <=> err = <<>>
        /\ IF ~resp.success
           THEN /\ {"success", "message"} \subseteq DOMAIN resp
                /\ resp.message = err[1]
           ELSE CASE IsCopy(cur) -> resp = [success |-> TRUE]
                  [] IsQuery(cur) -> DOMAIN resp = {"success", "version"}
                  [] IsPaste(cur) -> /\ {"success", "data"} \subseteq DOMAIN resp
                                     /\ DOMAIN resp \subseteq {"success", "data", "mime"}
                  [] OTHER -> FALSE

ResponseShapeWitness ==
    /\ pc = "write"
    /\ IsPaste(cur)
    /\ DOMAIN resp = {"success", "data", "mime"}
    /\ resp.data # <<>>

\* Every LF of a text preceded by a CR, and every CR that an LF follows
\* dropped, character by character.
RECURSIVE LfToCrLf(_)
LfToCrLf(t) ==
    IF t = <<>> THEN <<>>
    ELSE (IF Head(t) = "LF" THEN <<"CR", "LF">> ELSE <<Head(t)>>) \o LfToCrLf(Tail(t))

RECURSIVE CrLfToLf(_)
CrLfToLf(t) ==
    IF t = <<>> THEN <<>>
    ELSE IF Len(t) >= 2 /\ t[1] = "CR" /\ t[2] = "LF"
         THEN <<"LF">> \o CrLfToLf(Tail(Tail(t)))
         ELSE <<Head(t)>> \o CrLfToLf(Tail(t))

\* C16: on Windows with convert_line_endings the native set receives the
\* copied text with every LF replaced by CR LF and a paste returns the native
\* text with every CR LF replaced by LF; started with --keep-line-endings both
\* pass the text unchanged; the flag is set at construction from the
\* arguments and never changes.
LineEndingConversion ==
    [][/\ (pc = "start" /\ pc' = "loop" /\ platform = "windows") =>
             (backend'.convert_line_endings <=> "--keep-line-endings" \notin args)
       /\ pc # "start" => backend' = backend
       /\ (pc = "loop" /\ pc' = "write" /\ backend.kind = "windows") =>
             /\ (IsCopy(cur') /\ resp'.success) =>
                   win' = Text(IF backend.convert_line_endings
                               THEN LfToCrLf(parse(cur').val.data)
                               ELSE parse(cur').val.data)
             /\ (IsPaste(cur') /\ NativeOk' /\ win.has_text) =>
                   /\ resp'.success
                   /\ resp'.data = IF backend.convert_line_endings
                                   THEN CrLfToLf(win.text) ELSE win.text
      ]_vars

LineEndingConversionWitness ==
    /\ pc = "write"
    /\ backend.kind = "windows"
    /\ backend.convert_line_endings
    /\ cur = Obj(Str("copy"), Absent, Str(<<"LF", "CR">>))
    /\ resp.success
    /\ win = Text(<<"CR", "LF", "CR">>)

\* C17: on Windows the selector has no effect: a copy with any destination
\* and a paste with any source do what the request without a selector does,
\* on the one system clipboard, so a paste with any source after a copy with
\* any destination returns the text copied.
WindowsSelectorCollapse ==
    [][(pc = "loop" /\ pc' = "write" /\ backend.kind = "windows"
        /\ (IsCopy(cur') \/ IsPaste(cur'))) =>
          LET plain == process_request(backend, [cur' EXCEPT !.clipboard = Absent],
                                       [wl |-> wl, x11 |-> x11, win |-> win], nat')
          IN /\ resp' = response(plain.res)
             /\ win' = plain.win
             /\ wl' = wl /\ x11' = x11
             /\ (IsPaste(cur') /\ NativeOk' /\ last.kind = "copy") =>
                   /\ resp'.success
                   /\ resp'.data = last.data
      ]_vars

WindowsSelectorCollapseWitness ==
    /\ pc = "write"
    /\ backend.kind = "windows"
    /\ last = [kind |-> "copy", ok |-> TRUE, dest |-> "both", data |-> <<"LF">>]
    /\ cur = Obj(Str("paste"), Str("primary"), Absent)
    /\ resp = [success |-> TRUE, data |-> <<"LF">>]

\* The text the OS clipboard holds for the paste cur asks for.
ClipboardText ==
    CASE backend.kind = "wayland" ->
            IF /\ PastedOffer.present
               /\ PastedOffer.mime[1] = "text/"
               /\ ~IsPrefix(<<"text/", "_moz">>, PastedOffer.mime)
            THEN from_utf8_lossy(PastedOffer.bytes) ELSE <<>>
      [] backend.kind = "x11" -> from_utf8_lossy(x11[LoadedAtom(parse(cur).val.source)].bytes)
      [] OTHER -> IF ~win.has_text THEN <<>>
                  ELSE IF backend.convert_line_endings THEN CrLfToLf(win.text) ELSE win.text

\* C18: the response to a request is determined by the request, the
\* backend's configuration, the OS clipboard's content and the outcome of the
\* native calls, whatever requests came before, failed or not: a paste returns
\* what the OS clipboard holds now, a refused request its request error, a
\* query the version, a copy success or the system error; the backend handle
\* is the only thing kept from one request to the next.
Statelessness ==
    [][/\ pc' = "write" =>
            /\ (IsPaste(cur') /\ NativeOk') => (resp'.success /\ resp'.data = ClipboardText')
            /\ IsQuery(cur') => resp' = [success |-> TRUE, version |-> VERSION]
            /\ (IsCopy(cur') /\ NativeOk') => resp' = [success |-> TRUE]
            /\ ~Accepted(cur') =>
                  resp' = response(IF from_str(cur').ok THEN parse(cur') ELSE from_str(cur'))
            /\ (Accepted(cur') /\ ~resp'.success) =>
                  (~NativeOk' /\ resp'.message = SystemError)
       /\ (pc = "write" /\ pc' = "loop") =>
            /\ backend' = backend
            /\ <<cur', resp', err', nat', lock'>> = <<NoLine, NoResp, <<>>, NoNat, NoLock>>
      ]_vars

StatelessnessWitness ==
    /\ pc = "write"
    /\ backend.kind = "x11"
    /\ last.kind = "external"
    /\ cur = Obj(Str("paste"), Str("clipboard"), Absent)
    /\ x11["PRIMARY"] = Owned(<<10>>)
    /\ x11["CLIPBOARD"] = Owned(<<255>>)
    /\ resp = [success |-> TRUE, data |-> <<"FFFD">>]

\* C19: every failure of a native call of a backend, at construction or in
\* a copy or paste, that is not one of the normalized empty-clipboard
\* outcomes, ends in a startup failure or a failure response: a Wayland
\* backend exists only if its probe of the primary selection succeeded, and an
\* accepted copy or paste whose native call failed is answered with a failure.
NoSwallowedErrors ==
    /\ backend.kind = "wayland" => backend.primary_supported
    /\ (pc = "write" /\ (IsCopy(cur) \/ IsPaste(cur)) /\ ~NativeOk) =>
          \/ ~resp.success
          \/ /\ IsPaste(cur)
             /\ \/ backend.kind = "wayland" /\ nat.call = "NoSeats"
                \/ /\ backend.kind = "wayland"
                   /\ nat.call \in {"error", "pipe_error"}
                   /\ (~PastedOffer.present \/ PastedOffer.mime[1] # "text/")
                \/ backend.kind = "windows" /\ lock.ok /\ nat.code \in {6, 1168}

\* The decoding of bytes that replaces what is no UTF-8 by U+FFFD.
Replaced(bytes, text) ==
    /\ Len(text) = Len(bytes)
    /\ \A i \in 1..Len(bytes) :
          text[i] = CASE bytes[i] = 10 -> "LF" [] bytes[i] = 13 -> "CR"
                      [] bytes[i] = 63 -> "?" [] OTHER -> "FFFD"

RECURSIVE Pow2(_)
Pow2(n) == IF n = 0 THEN 1 ELSE 2 * Pow2(n - 1)

RECURSIVE SumOf(_)
SumOf(q) == IF q = <<>> THEN 0 ELSE Head(q) + SumOf(Tail(q))

\* C21: in the Windows lock-retry loop the wait after the k-th failed
\* attempt is min(10 * 2^(k-1), 500) ms; the waits never decrease, never
\* exceed 500 ms, their doubling is at most 1000 (the delay is a u64, so
\* delay * 2 cannot overflow), and the attempt counter
\* (10 minus the failed attempts) never goes below zero.
BackoffSchedule ==
    (pc = "write" /\ nat.call = "locked") =>
        LET failed == lock.attempts - (IF lock.ok THEN 1 ELSE 0) IN
        /\ \A k \in 1..Len(lock.slept) :
              /\ lock.slept[k] = (IF 10 * Pow2(k - 1) <= 500 THEN 10 * Pow2(k - 1) ELSE 500)
              /\ lock.slept[k] <= 500
              /\ lock.slept[k] * 2 <= 1000
              /\ k > 1 => lock.slept[k - 1] <= lock.slept[k]
        /\ 10 - failed >= 0
        /\ failed = (IF Len(nat.lock) <= 10 THEN Len(nat.lock) ELSE 10)
        /\ Len(lock.slept) = (IF failed <= 9 THEN failed ELSE 9)

BackoffScheduleWitness ==
    /\ pc = "write"
    /\ nat.call = "locked"
    /\ lock.ok
    /\ lock.slept = <<10, 20, 40, 80, 160, 320, 500, 500, 500>>

\* C22 as claimed: when every attempt to take the lock fails, the process
\* sleeps ten times, 10+20+40+80+160+320+500+500+500+500 = 2630 ms, before the
\* error is returned.
WorstCaseLockWaitTen ==
    (pc = "write" /\ nat.call = "locked" /\ ~lock.ok) =>
        /\ Len(lock.slept) = 10
        /\ SumOf(lock.slept) = 2630

\* C22 as amended: when every attempt to take the lock fails, the process
\* sleeps nine times, between the ten attempts, 10+20+40+80+160+320+500+500+500
\* = 2130 ms, and returns the error right after the tenth failure.
WorstCaseLockWait ==
    (pc = "write" /\ nat.call = "locked" /\ ~lock.ok) =>
        /\ lock.attempts = 10
        /\ lock.slept = <<10, 20, 40, 80, 160, 320, 500, 500, 500>>
        /\ SumOf(lock.slept) = 2130

WorstCaseLockWaitWitness ==
    /\ pc = "write"
    /\ nat.call = "locked"
    /\ Len(nat.lock) >= 10
    /\ ~lock.ok
    /\ ~resp.success
    /\ SumOf(lock.slept) = 2130

\* C23: an X11 copy to both stores PRIMARY and then CLIPBOARD: when the
\* PRIMARY store fails neither selection changes, whatever the CLIPBOARD store
\* would have done; when PRIMARY is stored and the CLIPBOARD store fails,
\* PRIMARY holds the new text, CLIPBOARD what it held, and the response is a
\* failure with a System error whose cause is the X11 error.
PartialBothCopy ==
    [][(/\ pc = "loop"
        /\ pc' = "write"
        /\ backend.kind = "x11"
        /\ IsCopy(cur')
        /\ parse(cur').val.dest = "both"
        /\ ~NativeOk') =>
          /\ resp' = [success |-> FALSE, message |-> SystemError]
          /\ err' = <<SystemError>> \o X11Error
          /\ x11'["CLIPBOARD"] = x11["CLIPBOARD"]
          /\ x11'["PRIMARY"] = IF nat'.stores[1] = "ok"
                               THEN Owned(as_bytes(parse(cur').val.data))
                               ELSE x11["PRIMARY"]
      ]_vars

PartialBothCopyWitness ==
    /\ pc = "write"
    /\ backend.kind = "x11"
    /\ cur = Obj(Str("copy"), Str("both"), Str(<<"LF">>))
    /\ nat.stores = <<"ok", "error">>
    /\ x11["PRIMARY"] = Owned(<<10>>)
    /\ x11["CLIPBOARD"] = Owned(<<255>>)
    /\ ~resp.success

\* C24: a line is read only when no request is in progress and no response
\* is pending; the response written is that of the one line in progress, and
\* with it everything the request did, the backend call and the sleeps of the
\* Windows lock retry, is over before the next line is read.
StrictOrdering ==
    [][/\ pending' > pending =>
             /\ pending = 0 /\ pending' = 1
             /\ pc = "loop" /\ pc' = "write"
             /\ <<cur, resp, nat, lock>> = <<NoLine, NoResp, NoNat, NoLock>>
             /\ cur' # NoLine /\ resp' # NoResp
       /\ pending' < pending =>
             /\ pending = 1 /\ pending' = 0
             /\ pc = "write" /\ pc' = "loop"
             /\ <<cur', resp', nat', lock'>> = <<NoLine, NoResp, NoNat, NoLock>>
       /\ (cur' # cur /\ cur' # NoLine) => pending' = pending + 1
       /\ (pc' = "loop" /\ pc # "loop") => pending' = 0
      ]_vars

StrictOrderingWitness ==
    /\ pc = "write"
    /\ pending = 1
    /\ last.kind = "copy"
    /\ backend.kind = "windows"
    /\ IsPaste(cur)
    /\ lock.slept = <<10>>
    /\ resp.success

\* C25: on Windows the native get or set of a request is called only while
\* this process holds the clipboard lock taken for it: it is called exactly
\* when the lock was obtained, and a request whose lock was never obtained
\* fails with the lock error and leaves the clipboard as it was; the lock is
\* released when the operation ends, with a text, with a normalized empty
\* result or with an error, so it is not held after any step.
LockDiscipline ==
    [][/\ ~lock'.held
       /\ (pc = "loop" /\ pc' = "write" /\ nat'.call = "locked") =>
             /\ lock'.native # "unlocked"
             /\ lock'.native = "locked" <=> lock'.ok
             /\ lock'.ok => lock'.attempts = Len(nat'.lock) + 1
             /\ ~lock'.ok =>
                   /\ win' = win
                   /\ ~resp'.success
                   /\ err' = lock'.err
      ]_vars

LockDisciplineWitness ==
    /\ pc = "write"
    /\ IsPaste(cur)
    /\ nat.call = "locked"
    /\ nat.code = 5
    /\ lock.ok
    /\ lock.native = "locked"
    /\ ~lock.held
    /\ ~resp.success

\* C26: a query, a paste, successful or not, and a request refused with a
\* request error leave every selection and the system clipboard as they
\* were; a request that changes one is a copy that passed validation.
OnlyCopyWrites ==
    [][(pc = "loop" /\ pc' = "write") =>
          /\ ~IsCopy(cur') => (wl' = wl /\ x11' = x11 /\ win' = win)
          /\ (wl' # wl \/ x11' # x11 \/ win' # win) =>
                /\ cur'.json = "object"
                /\ cur'.action = Str("copy")
                /\ cur'.clipboard \in CopySelectors
                /\ cur'.data.t = "string"
      ]_vars

OnlyCopyWritesWitness ==
    /\ pc = "write"
    /\ backend.kind = "wayland"
    /\ IsPaste(cur)
    /\ nat.call = "pipe_error"
    /\ ~resp.success
    /\ wl.regular = Offer(TextPlain, <<10>>)

\* C27: a copy request is refused for its clipboard field before its data
\* is looked at: with an invalid clipboard value the error is the
\* invalid-destination error whatever the data, and a data error is reported
\* only with a clipboard field that is valid or absent.
CopyValidationOrder ==
    (pc = "write" /\ cur.json = "object" /\ cur.action = Str("copy")) =>
        /\ cur.clipboard \notin CopySelectors =>
              resp = [success |-> FALSE,
                      message |-> <<"Invalid clipboard destination: ", Display(cur.clipboard)>>]
        /\ (cur.clipboard \in CopySelectors /\ cur.data.t # "string") =>
              /\ ~resp.success
              /\ resp.message = IF cur.data = Absent
                                THEN <<"Request is missing data">>
                                ELSE <<"Invalid clipboard data: ", "42">>
        /\ (~resp.success /\ resp.message[1] \in {"Request is missing data",
                                                  "Invalid clipboard data: "}) =>
              cur.clipboard \in CopySelectors

CopyValidationOrderWitness ==
    /\ pc = "write"
    /\ cur = Obj(Str("copy"), Str("bogus"), NonStr)
    /\ resp = [success |-> FALSE,
               message |-> <<"Invalid clipboard destination: ", "bogus">>]

====
